---- MODULE Spec2Model ----
(***************************************************************************)
(* Layout and rendering engine of the FHIR resource SVG renderer.          *)
(*                                                                         *)
(* Strings are sequences of one-character strings, so that concatenation,  *)
(* prefixes, word splitting and per-glyph measurement are computed and not *)
(* assumed.  Pixel quantities are whole pixels: the text measurer opens    *)
(* its face with font.HintingFull, which quantises every glyph advance to  *)
(* a whole pixel, and DefaultConfig holds whole numbers only.              *)
(***************************************************************************)
EXTENDS Integers, Sequences, FiniteSets, TLC

VARIABLES
    pc,         \* position of the call in progress
    resource,   \* the ResourceDefinition handed to Flatten / Render
    flat,       \* the []FlatElement returned by Flatten
    text,       \* the text handed to WrapText
    maxWidth,   \* the width handed to WrapText
    lines,      \* the []string returned by WrapText
    config,     \* the SVGConfig handed to Render
    fontOK,     \* whether NewTextMeasurer succeeds in this call
    rows,       \* the []RowData built by prepareRows
    svg,        \* the document returned by Render
    calls,      \* the Render calls in flight at once, each with its locals
    request,    \* the HTTP request handed to a /render handler
    response,   \* the HTTP response the handler wrote
    truncation  \* TruncateText: low and high of its search, and its result

vars == <<pc, resource, flat, text, maxWidth, lines, config, fontOK, rows, svg,
          calls, request, response, truncation>>

----------------------------------------------------------------------------
(* Bounds of the model *)

\* units (elements + extensions) below the root of an input tree
MaxNodes == 4
\* extensions owned by one node
MaxExts == 2
\* units (elements + extensions) below the root of a tree handed to Render
MaxRenderNodes == 2
\* characters of a text handed to WrapText
MaxTextLen == 5
\* largest width handed to WrapText
MaxWidth == 24
\* how far below zero the widths handed to WrapText reach
NegWidths == 2
\* units below the root of a tree handed to one of the concurrent Render calls
MaxCallNodes == 1
\* nesting depth of the deepest chain of elements handed to Render
MaxDepth == 14

----------------------------------------------------------------------------
(* Generic helpers *)

Max(a, b) == IF a > b THEN a ELSE b

Min(a, b) == IF a < b THEN a ELSE b

RECURSIVE SumSeq(_)
SumSeq(s) == IF s = <<>> THEN 0 ELSE Head(s) + SumSeq(Tail(s))

RECURSIVE Concat(_)
Concat(ss) == IF ss = <<>> THEN <<>> ELSE Head(ss) \o Concat(Tail(ss))

\* all sequences over S of length 0..n
SeqsUpTo(S, n) == UNION {[1..k -> S] : k \in 0..n}

----------------------------------------------------------------------------
(* Text measurer: renderer/text.go *)

\* advance of one glyph of the face, in whole pixels (hinted)
Advance(c) ==
    CASE c = "i" -> 3
      [] c = " " -> 3
      [] c = "." -> 3
      [] c = ":" -> 3
      [] c = "-" -> 4
      [] c = "W" -> 11
      [] OTHER   -> 7

\* MeasureString: the sum of the glyph advances
MeasureString(s) == SumSeq([k \in 1..Len(s) |-> Advance(s[k])])

IsSpace(c) == c = " "

\* strings.Fields: the maximal runs of non-space characters, in order
RECURSIVE FieldsFrom(_, _, _)
FieldsFrom(s, cur, acc) ==
    IF s = <<>>
    THEN IF cur = <<>> THEN acc ELSE Append(acc, cur)
    ELSE IF IsSpace(Head(s))
         THEN FieldsFrom(Tail(s), <<>>, IF cur = <<>> THEN acc ELSE Append(acc, cur))
         ELSE FieldsFrom(Tail(s), Append(cur, Head(s)), acc)

Fields(s) == FieldsFrom(s, <<>>, <<>>)

\* a slip: a full line is not committed when the next one is begun
RECURSIVE WrapLoopDropping(_, _, _, _, _)
WrapLoopDropping(words, i, currentLine, acc, w) ==
    IF i > Len(words)
    THEN Append(acc, currentLine)
    ELSE LET testLine == currentLine \o <<" ">> \o words[i]
         IN  IF MeasureString(testLine) <= w
             THEN WrapLoopDropping(words, i + 1, testLine, acc, w)
             ELSE WrapLoopDropping(words, i + 1, words[i], acc, w)

\* the loop of WrapText over words[i..], with the line being built and the
\* lines committed so far
RECURSIVE WrapLoop(_, _, _, _, _)
WrapLoop(words, i, currentLine, acc, w) ==
    IF i > Len(words)
    THEN Append(acc, currentLine)
    ELSE LET testLine == currentLine \o <<" ">> \o words[i]
         IN  IF MeasureString(testLine) <= w
             THEN WrapLoop(words, i + 1, testLine, acc, w)
             ELSE WrapLoop(words, i + 1, words[i], Append(acc, currentLine), w)

\* a plausible slip: the fit test looks at the line before the word is added
RECURSIVE WrapLoopStale(_, _, _, _, _)
WrapLoopStale(words, i, currentLine, acc, w) ==
    IF i > Len(words)
    THEN Append(acc, currentLine)
    ELSE LET testLine == currentLine \o <<" ">> \o words[i]
         IN  IF MeasureString(currentLine) <= w
             THEN WrapLoopStale(words, i + 1, testLine, acc, w)
             ELSE WrapLoopStale(words, i + 1, words[i], Append(acc, currentLine), w)

WrapTextStale(t, w) ==
    IF t = <<>> THEN << <<>> >>
    ELSE IF MeasureString(t) <= w THEN <<t>>
    ELSE LET words == Fields(t)
         IN  IF Len(words) = 0 THEN << <<>> >>
             ELSE WrapLoopStale(words, 2, words[1], <<>>, w)

WrapText(t, w) ==
    IF t = <<>> THEN << <<>> >>
    ELSE IF MeasureString(t) <= w THEN <<t>>
    ELSE LET words == Fields(t)
         IN  IF Len(words) = 0 THEN << <<>> >>
             ELSE WrapLoop(words, 2, words[1], <<>>, w)

\* the ellipsis of TruncateText
Ellipsis == <<".", ".", ".">>

\* a slip: the middle is rounded down
MidRoundedDown(low, high) == (low + high) \div 2

\* mid := (low + high + 1) / 2
Mid(low, high) == (low + high + 1) \div 2

\* no truncation in progress
NoTruncation == [low |-> 0, high |-> 0, result |-> <<>>]

----------------------------------------------------------------------------
(* Data model: models (ResourceDefinition, Element, Extension, FlatElement) *)

\* the zero value of Element
ZeroElement ==
    [Name |-> <<>>, Flags |-> <<>>, Cardinality |-> <<>>, Type |-> <<>>,
     TypeRef |-> <<>>, Description |-> <<>>, Usage |-> "", Notes |-> <<>>,
     Elements |-> <<>>, Extensions |-> <<>>]

\* an Extension value
Extension(name, url, context, type, card, desc) ==
    [Name |-> name, URL |-> url, Context |-> context, Type |-> type,
     Cardinality |-> card, Description |-> desc]

\* a FlatElement value
FlatElement(element, depth, isLast, parentLasts, path) ==
    [Element |-> element, Depth |-> depth, IsLast |-> isLast,
     ParentLasts |-> parentLasts, Path |-> path]

----------------------------------------------------------------------------
(* Flatten: models (ResourceDefinition.Flatten, flattenElements) *)

\* a slip: the extension row is put at its owner's depth
ElementExtensionRowSameDepth(elem, j, depth, isLast, newParentLasts, path) ==
    LET ext == elem.Extensions[j]
        extElement == [ZeroElement EXCEPT !.Name = ext.Name,
                                          !.Type = ext.Type,
                                          !.Cardinality = ext.Cardinality,
                                          !.Description = ext.Description]
        extIsLast == (j = Len(elem.Extensions)) /\ isLast
    IN  FlatElement(extElement, depth, extIsLast, newParentLasts,
                    path \o <<".">> \o ext.Name)

\* the row appended for extension j of an element at `depth`
ElementExtensionRow(elem, j, depth, isLast, newParentLasts, path) ==
    LET ext == elem.Extensions[j]
        extElement == [ZeroElement EXCEPT !.Name = ext.Name,
                                          !.Type = ext.Type,
                                          !.Cardinality = ext.Cardinality,
                                          !.Description = ext.Description]
        extIsLast == (j = Len(elem.Extensions)) /\ isLast
    IN  FlatElement(extElement, depth + 1, extIsLast, newParentLasts,
                    path \o <<".">> \o ext.Name)

\* flattenElements, iteration i of its loop onwards; the result slice is
\* threaded through and returned
RECURSIVE flattenElementsFrom(_, _, _, _, _, _, _)
flattenElementsFrom(elements, i, depth, result, parentLasts, parentPath, parentIsLast) ==
    IF i > Len(elements)
    THEN result
    ELSE LET elem == elements[i]
             isLast == i = Len(elements)
             path == parentPath \o <<".">> \o elem.Name
             newParentLasts == Append(parentLasts, parentIsLast)
             own == FlatElement(elem, depth,
                                isLast /\ Len(elem.Extensions) = 0,
                                SubSeq(newParentLasts, 1, Len(newParentLasts) - 1),
                                path)
             r1 == Append(result, own)
             r2 == IF Len(elem.Elements) > 0
                   THEN flattenElementsFrom(elem.Elements, 1, depth + 1, r1,
                                            newParentLasts, path,
                                            isLast /\ Len(elem.Extensions) = 0)
                   ELSE r1
             r3 == r2 \o [j \in 1..Len(elem.Extensions) |->
                            ElementExtensionRow(elem, j, depth, isLast,
                                                newParentLasts, path)]
         IN  flattenElementsFrom(elements, i + 1, depth, r3, parentLasts,
                                 parentPath, parentIsLast)

flattenElements(elements, depth, result, parentLasts, parentPath, parentIsLast) ==
    flattenElementsFrom(elements, 1, depth, result, parentLasts, parentPath,
                        parentIsLast)

\* the row appended for root-level extension i
RootExtensionRow(r, i) ==
    LET ext == r.Extensions[i]
        extElement == [ZeroElement EXCEPT !.Name = ext.Name,
                                          !.Type = ext.Type,
                                          !.Description = ext.Description]
        isLast == i = Len(r.Extensions)
    IN  FlatElement(extElement, 1, isLast, <<Len(r.Elements) = 0>>, ext.Context)

\* a slip: the root's extensions are forgotten in its "is last" flag
RootRowLastWithoutElements(r) ==
    LET rootElement == [ZeroElement EXCEPT !.Name = r.Name,
                                           !.Flags = r.Flags,
                                           !.Type = r.Type,
                                           !.Description = r.Description]
    IN  FlatElement(rootElement, 0, Len(r.Elements) = 0, <<>>, r.Name)

\* the root row
RootRow(r) ==
    LET rootElement == [ZeroElement EXCEPT !.Name = r.Name,
                                           !.Flags = r.Flags,
                                           !.Type = r.Type,
                                           !.Description = r.Description]
    IN  FlatElement(rootElement, 0,
                    Len(r.Elements) = 0 /\ Len(r.Extensions) = 0,
                    <<>>, r.Name)

\* a slip: the root-level extensions are not appended
FlattenNoRootExtensions(r) ==
    flattenElements(r.Elements, 1, <<RootRow(r)>>, <<>>, r.Name, FALSE)

Flatten(r) ==
    LET r0 == <<RootRow(r)>>
        r1 == flattenElements(r.Elements, 1, r0, <<>>, r.Name, FALSE)
    IN  r1 \o [i \in 1..Len(r.Extensions) |-> RootExtensionRow(r, i)]

----------------------------------------------------------------------------
(* Input trees *)

\* the k-th digit character
DigitChar(k) == <<"0", "1", "2", "3", "4", "5", "6", "7", "8", "9">>[k + 1]

\* the j-th extension a node declares
ExtAt(j) ==
    Extension(<<"e", DigitChar(j)>>, <<"u">>, <<"c", "x">>,
              <<"s", "t", "r">>, <<"0", ".", ".", "1">>, <<"d", DigitChar(j)>>)

ExtsFirst(k) == [j \in 1..k |-> ExtAt(j)]

\* an element with the fields of profile p, children es and extensions xs
MkElement(p, es, xs) ==
    [Name |-> p.Name, Flags |-> p.Flags, Cardinality |-> p.Cardinality,
     Type |-> p.Type, TypeRef |-> p.TypeRef, Description |-> p.Description,
     Usage |-> p.Usage, Notes |-> p.Notes, Elements |-> es, Extensions |-> xs]

MkResource(name, type, desc, es, xs) ==
    [Name |-> name, Flags |-> <<>>, Type |-> type, Description |-> desc,
     Elements |-> es, Extensions |-> xs]

\* elements (with their subtrees) made of exactly n units, and sequences of
\* elements made of exactly m units
RECURSIVE ElementsOfSize(_, _), ForestsOfSize(_, _)
ElementsOfSize(P, n) ==
    UNION {{MkElement(p, es, ExtsFirst(k)) :
               p \in P, es \in ForestsOfSize(P, n - 1 - k)} :
           k \in 0..Min(MaxExts, n - 1)}

ForestsOfSize(P, m) ==
    IF m = 0
    THEN {<<>>}
    ELSE UNION {{<<e>> \o f : e \in ElementsOfSize(P, h),
                              f \in ForestsOfSize(P, m - h)} :
                h \in 1..m}

\* every resource with at most n units below the root
ResourcesUpTo(P, n) ==
    UNION {{MkResource(<<"R">>, <<"D", "R">>, <<>>, es, ExtsFirst(k)) :
               es \in UNION {ForestsOfSize(P, m) : m \in 0..(n - k)}} :
           k \in 0..Min(MaxExts, n)}

Profile(name, type, card, desc, usage, notes) ==
    [Name |-> name, Flags |-> <<>>, Cardinality |-> card, Type |-> type,
     TypeRef |-> <<>>, Description |-> desc, Usage |-> usage, Notes |-> notes]

\* element contents of the trees handed to Flatten
FlattenProfiles ==
    {Profile(<<"a">>, <<"i", "d">>, <<"0", ".", ".", "1">>, <<>>, "", <<>>),
     Profile(<<"b">>, <<"i", "d">>, <<"1", ".", ".", "1">>, <<>>, "", <<>>)}

\* element contents of the trees handed to Render
RenderProfiles ==
    {Profile(<<"a">>, <<"i", "d">>, <<"0", ".", ".", "1">>, <<>>, "", <<>>),
     Profile(<<"b">>, <<"W", " ", "W">>, <<"0", ".", ".", "*">>,
             <<"W", " ", "W", " ", "W">>, "todo", <<>>),
     Profile(<<"c">>, <<"i">>, <<>>, <<>>, "not-used", <<"W", " ", "i">>),
     Profile(<<"d">>, <<"i", "d">>, <<>>, <<"W", "W">>, "used", <<"W", "i">>)}

\* the empty resource, held while another operation is exercised
NoResource == MkResource(<<>>, <<>>, <<>>, <<>>, <<>>)

----------------------------------------------------------------------------
(* Layout constants and configuration: renderer (config, constants) *)

RowTopMargin == 4
RowBottomMargin == 6
MinNameColWidth == 180
MaxNameColWidth == 300
FontRenderingBuffer == 15
\* BoldTextWidthFactor = 0.90, as a percentage
BoldTextWidthPercent == 90
IconPaddingRight == 8
IconSpaceInMeasurement == 12
SVGHeightPadding == 2
TreeHorizontalGap == 2
HeaderTextMarginY == 6
UnusedElementLabel == <<"N", "o", "t", " ", "u", "s", "e", "d">>

DefaultConfig ==
    [FontSize |-> 12, HeaderFontSize |-> 13, MinRowHeight |-> 26,
     LineHeight |-> 16, HeaderHeight |-> 28, TitleHeight |-> 32,
     IconSize |-> 14, Padding |-> 8, IndentPx |-> 20,
     NameColWidth |-> 180, FlagsColWidth |-> 50, CardinalityColWidth |-> 55,
     TypeColWidth |-> 220, DescriptionColWidth |-> 400]

\* the configurations handed to Render: the default, and whole-pixel variants
\* with narrow type and description columns, a higher minimum row height,
\* another caller-side name column width and wider indents
Configs ==
    {DefaultConfig,
     [DefaultConfig EXCEPT !.TypeColWidth = 45, !.DescriptionColWidth = 60],
     [DefaultConfig EXCEPT !.TypeColWidth = 45, !.DescriptionColWidth = 60,
                           !.MinRowHeight = 40, !.LineHeight = 14],
     [DefaultConfig EXCEPT !.NameColWidth = 250, !.FlagsColWidth = 40,
                           !.TitleHeight = 30, !.IndentPx = 100],
     [DefaultConfig EXCEPT !.IndentPx = 150, !.DescriptionColWidth = 60]}

----------------------------------------------------------------------------
(* Layout engine: renderer (Render and its helpers) *)

\* fmt "%.0f" of a whole number: its decimal digits
RECURSIVE DigitsOf(_)
DigitsOf(n) ==
    IF n < 10 THEN <<DigitChar(n)>>
    ELSE Append(DigitsOf(n \div 10), DigitChar(n % 10))

FormatF0(x) == IF x < 0 THEN <<"-">> \o DigitsOf(0 - x) ELSE DigitsOf(x)

\* ColumnWidths.Total
Total(cw) == cw.Name + cw.Flags + cw.Cardinality + cw.Type + cw.Description

\* the running maximum of calculateNameColumnWidth over flatElements[i..]
RECURSIVE maxNameWidthFrom(_, _, _, _)
maxNameWidthFrom(flatElements, i, maxNameWidth, c) ==
    IF i > Len(flatElements)
    THEN maxNameWidth
    ELSE LET fe == flatElements[i]
             indentWidth == fe.Depth * c.IndentPx
             nameWidth == indentWidth + c.IconSize + IconSpaceInMeasurement
                          + MeasureString(fe.Element.Name)
         IN  maxNameWidthFrom(flatElements, i + 1,
                              IF nameWidth > maxNameWidth THEN nameWidth
                                                          ELSE maxNameWidth, c)

calculateNameColumnWidth(r, c) ==
    LET maxNameWidth == maxNameWidthFrom(Flatten(r), 1, MeasureString(r.Name), c)
        width == maxNameWidth + c.Padding * 2
    IN  IF width < MinNameColWidth THEN MinNameColWidth
        ELSE IF width > MaxNameColWidth THEN MaxNameColWidth
        ELSE width

\* strings.HasPrefix
HasPrefix(s, prefix) ==
    Len(s) >= Len(prefix) /\ SubSeq(s, 1, Len(prefix)) = prefix

\* a slip: the notes are appended whatever the usage
buildDescriptionTextNotesAlways(fe) ==
    LET e == fe.Element
        d1 == IF e.Usage = "not-used"
              THEN IF e.Description = <<>> THEN UnusedElementLabel
                                           ELSE e.Description
              ELSE IF e.Usage = "todo"
                   THEN IF ~HasPrefix(e.Description, <<"T", "O", "D", "O">>)
                        THEN <<"T", "O", "D", "O", ":", " ">> \o e.Description
                        ELSE e.Description
                   ELSE e.Description
        isBold == e.Usage # "not-used" /\ e.Usage = "todo"
        d2 == IF e.Notes # <<>>
              THEN (IF d1 # <<>> THEN d1 \o <<" ", "-", " ">> ELSE d1) \o e.Notes
              ELSE d1
    IN  <<d2, isBold>>

\* a slip: the separator is put before the notes whatever precedes them
buildDescriptionTextSeparatorAlways(fe) ==
    LET e == fe.Element
        d1 == IF e.Usage = "not-used"
              THEN IF e.Description = <<>> THEN UnusedElementLabel
                                           ELSE e.Description
              ELSE IF e.Usage = "todo"
                   THEN IF ~HasPrefix(e.Description, <<"T", "O", "D", "O">>)
                        THEN <<"T", "O", "D", "O", ":", " ">> \o e.Description
                        ELSE e.Description
                   ELSE e.Description
        isBold == e.Usage # "not-used" /\ e.Usage = "todo"
        d2 == IF e.Notes # <<>> /\ e.Usage # "not-used"
              THEN d1 \o <<" ", "-", " ">> \o e.Notes
              ELSE d1
    IN  <<d2, isBold>>

\* buildDescriptionText: <<descText, isBold>>
buildDescriptionText(fe) ==
    LET e == fe.Element
        d1 == IF e.Usage = "not-used"
              THEN IF e.Description = <<>> THEN UnusedElementLabel
                                           ELSE e.Description
              ELSE IF e.Usage = "todo"
                   THEN IF ~HasPrefix(e.Description, <<"T", "O", "D", "O">>)
                        THEN <<"T", "O", "D", "O", ":", " ">> \o e.Description
                        ELSE e.Description
                   ELSE e.Description
        isBold == e.Usage # "not-used" /\ e.Usage = "todo"
        d2 == IF e.Notes # <<>> /\ e.Usage # "not-used"
              THEN (IF d1 # <<>> THEN d1 \o <<" ", "-", " ">> ELSE d1) \o e.Notes
              ELSE d1
    IN  <<d2, isBold>>

\* a slip: the description cell is left out of the line count
calculateRowHeightNoDesc(row, c) ==
    LET n0 == Len(row.NameLines)
        n1 == IF Len(row.TypeLines) > n0 THEN Len(row.TypeLines) ELSE n0
        height == RowTopMargin + n1 * c.LineHeight + RowBottomMargin
    IN  IF height < c.MinRowHeight THEN c.MinRowHeight ELSE height

calculateRowHeight(row, c) ==
    LET n0 == Len(row.NameLines)
        n1 == IF Len(row.TypeLines) > n0 THEN Len(row.TypeLines) ELSE n0
        maxLines == IF Len(row.DescLines) > n1 THEN Len(row.DescLines) ELSE n1
        height == RowTopMargin + maxLines * c.LineHeight + RowBottomMargin
    IN  IF height < c.MinRowHeight THEN c.MinRowHeight ELSE height

\* prepareRow; index is the 0-based position of fe in the flattened list
prepareRow(fe, index, c) ==
    LET nameIndent == fe.Depth * c.IndentPx + c.IconSize + IconPaddingRight
        availableNameWidth == c.NameColWidth - nameIndent - c.Padding
                              - FontRenderingBuffer
        availableTypeWidth == c.TypeColWidth - c.Padding * 2 - FontRenderingBuffer
        availableDescWidth == c.DescriptionColWidth - c.Padding * 2
                              - FontRenderingBuffer
        nameLines == IF MeasureString(fe.Element.Name) > availableNameWidth
                     THEN WrapText(fe.Element.Name, availableNameWidth)
                     ELSE <<fe.Element.Name>>
        typeLines == WrapText(fe.Element.Type, availableTypeWidth)
        desc == buildDescriptionText(fe)
        \* measured widths are whole pixels, so comparing against the product
        \* with 0.90 is comparing against its floor
        descWidth == IF desc[2]
                     THEN (availableDescWidth * BoldTextWidthPercent) \div 100
                     ELSE availableDescWidth
        row0 == [Element |-> fe, IsRoot |-> index = 0, IsAlt |-> index % 2 = 1,
                 NameLines |-> nameLines, TypeLines |-> typeLines,
                 DescLines |-> WrapText(desc[1], descWidth), RowHeight |-> 0]
    IN  [row0 EXCEPT !.RowHeight = calculateRowHeight(row0, c)]

prepareRows(flatElements, c) ==
    [i \in 1..Len(flatElements) |-> prepareRow(flatElements[i], i - 1, c)]

\* a slip: the bottom pad is forgotten
calculateTotalHeightNoPad(rs, c) ==
    c.TitleHeight + c.HeaderHeight + SumSeq([i \in 1..Len(rs) |-> rs[i].RowHeight])

calculateTotalHeight(rs, c) ==
    c.TitleHeight + c.HeaderHeight
    + SumSeq([i \in 1..Len(rs) |-> rs[i].RowHeight]) + SVGHeightPadding

\* buildSVGHeader: the attributes of the root svg element
buildSVGHeader(totalWidth, totalHeight, c) ==
    [width |-> FormatF0(totalWidth), height |-> FormatF0(totalHeight),
     viewBox |-> <<<<"0">>, <<"0">>, FormatF0(totalWidth), FormatF0(totalHeight)>>]

\* buildClipPaths: one rectangle per column
buildClipPaths(colWidths, totalHeight, c) ==
    LET colStarts == <<0,
                       colWidths.Name,
                       colWidths.Name + colWidths.Flags,
                       colWidths.Name + colWidths.Flags + colWidths.Cardinality,
                       colWidths.Name + colWidths.Flags + colWidths.Cardinality
                           + colWidths.Type>>
        widths == <<colWidths.Name, colWidths.Flags, colWidths.Cardinality,
                    colWidths.Type, colWidths.Description>>
        names == <<"name", "flags", "card", "type", "desc">>
    IN  [i \in 1..5 |-> [id |-> names[i], x |-> FormatF0(colStarts[i]),
                         y |-> <<"0">>, width |-> FormatF0(widths[i]),
                         height |-> FormatF0(totalHeight)]]

\* a slip: every row is taken to have the minimum height
currentYAtMinHeight(rs, i, c) ==
    c.TitleHeight + c.HeaderHeight + (i - 1) * c.MinRowHeight

\* the y at which buildDataRows places row i (1-based)
RECURSIVE currentYAt(_, _, _)
currentYAt(rs, i, c) ==
    IF i = 1 THEN c.TitleHeight + c.HeaderHeight
    ELSE currentYAt(rs, i - 1, c) + rs[i - 1].RowHeight

\* strings.HasSuffix
HasSuffix(s, suffix) ==
    Len(s) >= Len(suffix) /\ SubSeq(s, Len(s) - Len(suffix) + 1, Len(s)) = suffix

StrBackboneElement ==
    <<"B", "a", "c", "k", "b", "o", "n", "e", "E", "l", "e", "m", "e", "n", "t">>
StrExtension == <<"E", "x", "t", "e", "n", "s", "i", "o", "n">>
StrReference == <<"R", "e", "f", "e", "r", "e", "n", "c", "e">>
StrChoice == <<"[", "x", "]">>

\* a slip: the choice suffix is tested after the reference prefix
GetIconTypeReferenceFirst(elementType, isRoot, hasChildren) ==
    IF isRoot THEN "resource"
    ELSE IF elementType = StrBackboneElement THEN "backbone"
    ELSE IF elementType = StrExtension THEN "extension"
    ELSE IF HasPrefix(elementType, StrReference) THEN "reference"
    ELSE IF HasSuffix(elementType, StrChoice) THEN "choice"
    ELSE IF hasChildren THEN "backbone"
    ELSE "element"

GetIconTypeForElement(elementType, isRoot, hasChildren) ==
    IF isRoot THEN "resource"
    ELSE IF elementType = StrBackboneElement THEN "backbone"
    ELSE IF elementType = StrExtension THEN "extension"
    ELSE IF HasSuffix(elementType, StrChoice) THEN "choice"
    ELSE IF HasPrefix(elementType, StrReference) THEN "reference"
    ELSE IF hasChildren THEN "backbone"
    ELSE "element"

\* xmlReplacer: the replacement of one character
EscapeChar(ch) ==
    IF ch = "&" THEN <<"&", "a", "m", "p", ";">>
    ELSE IF ch = "<" THEN <<"&", "l", "t", ";">>
    ELSE IF ch = ">" THEN <<"&", "g", "t", ";">>
    ELSE IF ch = "\"" THEN <<"&", "q", "u", "o", "t", ";">>
    ELSE IF ch = "'" THEN <<"&", "a", "p", "o", "s", ";">>
    ELSE <<ch>>

\* escapeXML: one pass over the string, left to right
escapeXML(s) == Concat([i \in 1..Len(s) |-> EscapeChar(s[i])])

\* fmt "%f" of a whole number: its digits and six decimals
FormatF6(x) == FormatF0(x) \o <<".", "0", "0", "0", "0", "0", "0">>

Segment(x1, y1, x2, y2) ==
    [x1 |-> FormatF6(x1), y1 |-> FormatF6(y1),
     x2 |-> FormatF6(x2), y2 |-> FormatF6(y2)]

\* the continuation lines RenderTreeLines draws for columns i..depth-2
RECURSIVE ContinuationLines(_, _, _, _, _, _, _)
ContinuationLines(i, x, y, rowHeight, depth, parentLasts, indentPx) ==
    IF i >= depth - 1 THEN <<>>
    ELSE (IF i < Len(parentLasts) /\ ~parentLasts[i + 1]
          THEN LET lineX == x + i * indentPx + indentPx \div 2
               IN  <<Segment(lineX, y, lineX, y + rowHeight)>>
          ELSE <<>>)
         \o ContinuationLines(i + 1, x, y, rowHeight, depth, parentLasts, indentPx)

\* a slip: the connector of a last child runs the full row height
RenderTreeLinesFullConnector(x, y, rowHeight, firstLineY, depth, parentLasts, isLast, indentPx) ==
    IF depth = 0 THEN <<>>
    ELSE LET connectorX == x + (depth - 1) * indentPx + indentPx \div 2
             horizontalEndX == x + depth * indentPx - TreeHorizontalGap
         IN  ContinuationLines(0, x, y, rowHeight, depth, parentLasts, indentPx)
             \o <<Segment(connectorX, y, connectorX, y + rowHeight)>>
             \o <<Segment(connectorX, firstLineY, horizontalEndX, firstLineY)>>

\* RenderTreeLines: the line segments, in the order written.  The indent is
\* an even number of pixels in every configuration used, so its half is whole.
RenderTreeLines(x, y, rowHeight, firstLineY, depth, parentLasts, isLast, indentPx) ==
    IF depth = 0 THEN <<>>
    ELSE LET connectorX == x + (depth - 1) * indentPx + indentPx \div 2
             horizontalEndX == x + depth * indentPx - TreeHorizontalGap
         IN  ContinuationLines(0, x, y, rowHeight, depth, parentLasts, indentPx)
             \o <<IF isLast
                  THEN Segment(connectorX, y, connectorX, firstLineY)
                  ELSE Segment(connectorX, y, connectorX, y + rowHeight)>>
             \o <<Segment(connectorX, firstLineY, horizontalEndX, firstLineY)>>

\* renderFlags: the text of each flag, in order
renderFlags(flags) ==
    [i \in 1..Len(flags) |->
        LET flag == flags[i]
            \* "Sigma" stands for the one character U+03A3
            displayFlag == IF flag = <<"S">> THEN <<"Sigma">>
                           ELSE IF flag = <<"?", "!">> THEN <<"?", "!", "Sigma">>
                           ELSE flag
        IN  [text |-> escapeXML(displayFlag),
             boxed |-> flag \in {<<"T", "U">>, <<"N">>}]]

\* a slip: the cardinality is written as it is
renderCardinalityRaw(row) == row.Element.Element.Cardinality

renderCardinalityColumn(row) == escapeXML(row.Element.Element.Cardinality)

\* renderNameColumn: the style class and the lines
renderNameColumn(row) ==
    [class |-> IF row.Element.Element.Usage = "not-used" THEN "not-used"
                                                         ELSE "link-text",
     lines |-> [i \in 1..Len(row.NameLines) |-> escapeXML(row.NameLines[i])]]

\* renderTypeColumn: the lines, and the link put around the first of them
renderTypeColumn(row) ==
    [href |-> IF row.Element.Element.TypeRef # <<>> /\ Len(row.TypeLines) > 0
              THEN <<escapeXML(row.Element.Element.TypeRef)>> ELSE <<>>,
     lines |-> [i \in 1..Len(row.TypeLines) |-> escapeXML(row.TypeLines[i])]]

\* renderDescriptionColumn: the style class and the lines
renderDescriptionColumn(row) ==
    [class |-> IF row.Element.Element.Usage = "not-used" THEN "not-used"
               ELSE IF row.Element.Element.Usage = "todo" THEN "todo"
               ELSE "cell-text",
     lines |-> [i \in 1..Len(row.DescLines) |-> escapeXML(row.DescLines[i])]]

\* the x of the four renderColumnSeparator lines of a row that starts at x:
\* one after each column but the last
renderColumnSeparators(x, c) ==
    <<FormatF0(x + c.NameColWidth),
      FormatF0(x + c.NameColWidth + c.FlagsColWidth),
      FormatF0(x + c.NameColWidth + c.FlagsColWidth + c.CardinalityColWidth),
      FormatF0(x + c.NameColWidth + c.FlagsColWidth + c.CardinalityColWidth
               + c.TypeColWidth)>>

\* the x at which the loop of renderHeaderRow starts header i (1-based)
RECURSIVE headerXAt(_, _, _)
headerXAt(widths, i, c) ==
    IF i = 1 THEN c.Padding ELSE headerXAt(widths, i - 1, c) + widths[i - 1]

\* renderHeaderRow: the background, and per header the x of its text and of
\* the separator line that follows it (none after the last)
renderHeaderRow(c, y, totalWidth) ==
    LET widths == <<c.NameColWidth, c.FlagsColWidth, c.CardinalityColWidth,
                    c.TypeColWidth, c.DescriptionColWidth>>
    IN  [y |-> FormatF0(y), width |-> FormatF0(totalWidth),
         height |-> FormatF0(c.HeaderHeight),
         texts |-> [i \in 1..5 |->
                      FormatF0(headerXAt(widths, i, c) + HeaderTextMarginY)],
         separators |-> [i \in 1..4 |->
                           FormatF0(headerXAt(widths, i, c) + widths[i])]]

\* renderDataRowWrapped: the background rectangle, the tree lines, the icon
\* and the five cells of one row placed at y.  The font size is an even number
\* of pixels in every configuration used, so its half is whole.
renderDataRowWrapped(row, y, totalWidth, c) ==
    LET fe == row.Element
        x == c.Padding
        firstLineCenterY == y + RowTopMargin + c.FontSize \div 2
    IN  [y |-> FormatF0(y),
         width |-> FormatF0(totalWidth),
         height |-> FormatF0(row.RowHeight),
         treeLines |-> RenderTreeLines(x, y, row.RowHeight, firstLineCenterY,
                                       fe.Depth, fe.ParentLasts, fe.IsLast,
                                       c.IndentPx),
         icon |-> GetIconTypeForElement(fe.Element.Type, row.IsRoot,
                                        Len(fe.Element.Elements) > 0),
         name |-> renderNameColumn(row),
         separators |-> renderColumnSeparators(x, c),
         flags |-> renderFlags(fe.Element.Flags),
         card |-> renderCardinalityColumn(row),
         type |-> renderTypeColumn(row),
         desc |-> renderDescriptionColumn(row)]

\* buildDataRows: each row in order, placed below the one before
buildDataRows(rs, totalWidth, c) ==
    [i \in 1..Len(rs) |->
        renderDataRowWrapped(rs[i], currentYAt(rs, i, c), totalWidth, c)]

buildSVG(rs, colWidths, totalHeight, c) ==
    LET totalWidth == Total(colWidths)
    IN  [kind |-> "diagram",
         header |-> buildSVGHeader(totalWidth, totalHeight, c),
         clipPaths |-> buildClipPaths(colWidths, totalHeight, c),
         headerRow |-> renderHeaderRow(c, c.TitleHeight, totalWidth),
         dataRows |-> buildDataRows(rs, totalWidth, c)]

renderFallback ==
    [kind |-> "fallback",
     header |-> [width |-> <<"4", "0", "0">>, height |-> <<"1", "0", "0">>,
                 viewBox |-> <<>>],
     clipPaths |-> <<>>,
     dataRows |-> <<>>]

\* a slip: the name column width of the caller is kept
RenderConfigCallerWidth(r, c) == c

\* the configuration Render works with once the font is loaded
RenderConfig(r, c) == [c EXCEPT !.NameColWidth = calculateNameColumnWidth(r, c)]

\* the rows Render prepares
RenderRows(r, c) == prepareRows(Flatten(r), RenderConfig(r, c))

\* Render; ok tells whether NewTextMeasurer succeeded
Render(r, c, ok) ==
    IF ~ok
    THEN renderFallback
    ELSE LET c1 == RenderConfig(r, c)
             rs == RenderRows(r, c)
             colWidths == [Name |-> c1.NameColWidth, Flags |-> c1.FlagsColWidth,
                           Cardinality |-> c1.CardinalityColWidth,
                           Type |-> c1.TypeColWidth,
                           Description |-> c1.DescriptionColWidth]
             totalHeight == calculateTotalHeight(rs, c1)
         IN  buildSVG(rs, colWidths, totalHeight, c1)

\* no document yet
NoDocument == [kind |-> "none", header |-> <<>>, clipPaths |-> <<>>, dataRows |-> <<>>]

----------------------------------------------------------------------------
(* Render, step by step: the locals of one call *)

\* the calls of Render in flight at once
Calls == {1, 2}

\* a call that has not started: its arguments, and the locals Render declares
NewCall(r, c, ok) ==
    [at |-> "NewTextMeasurer", resource |-> r, given |-> c, fontOK |-> ok,
     config |-> c, rows |-> <<>>, result |-> NoDocument]

\* a slip: the error of NewTextMeasurer is ignored
CallNewTextMeasurerIgnoringError(p) ==
    /\ calls[p].at = "NewTextMeasurer"
    /\ calls' = [calls EXCEPT ![p].at = "calculateNameColumnWidth"]

\* tm, err := NewTextMeasurer(...); on an error Render returns the fallback
CallNewTextMeasurer(p) ==
    /\ calls[p].at = "NewTextMeasurer"
    /\ calls' = IF calls[p].fontOK
                THEN [calls EXCEPT ![p].at = "calculateNameColumnWidth"]
                ELSE [calls EXCEPT ![p].at = "returned",
                                   ![p].result = renderFallback]

\* a slip: the configuration is one object shared by every call
CallNameColumnWidthShared(p) ==
    /\ calls[p].at = "calculateNameColumnWidth"
    /\ LET w == calculateNameColumnWidth(calls[p].resource, calls[p].config)
       IN  calls' = [q \in Calls |->
                        [calls[q] EXCEPT
                            !.config.NameColWidth = w,
                            !.at = IF q = p THEN "prepareRows" ELSE @]]

\* config.NameColWidth = calculateNameColumnWidth(...): config is the call's
\* own copy, passed by value
CallNameColumnWidth(p) ==
    /\ calls[p].at = "calculateNameColumnWidth"
    /\ calls' = [calls EXCEPT
                    ![p].config.NameColWidth =
                        calculateNameColumnWidth(calls[p].resource, calls[p].config),
                    ![p].at = "prepareRows"]

\* rows := prepareRows(resource.Flatten(), tm, config)
CallPrepareRows(p) ==
    /\ calls[p].at = "prepareRows"
    /\ calls' = [calls EXCEPT
                    ![p].rows = prepareRows(Flatten(calls[p].resource),
                                            calls[p].config),
                    ![p].at = "buildSVG"]

\* colWidths, totalHeight, and the return of buildSVG
CallBuildSVG(p) ==
    /\ calls[p].at = "buildSVG"
    /\ LET c == calls[p].config
           colWidths == [Name |-> c.NameColWidth, Flags |-> c.FlagsColWidth,
                         Cardinality |-> c.CardinalityColWidth,
                         Type |-> c.TypeColWidth,
                         Description |-> c.DescriptionColWidth]
           totalHeight == calculateTotalHeight(calls[p].rows, c)
       IN  calls' = [calls EXCEPT
                        ![p].result = buildSVG(calls[p].rows, colWidths,
                                               totalHeight, c),
                        ![p].at = "returned"]

----------------------------------------------------------------------------
(* HTTP handlers: handlers (render) *)

\* validateResource: the error message, or "" for nil
validateResourceTypeFirst(r) ==
    IF r.Type = <<>> THEN "missing required field 'type'"
    ELSE IF r.Name = <<>> THEN "missing required field 'name'"
    ELSE ""

validateResource(r) ==
    IF r.Name = <<>> THEN "missing required field 'name'"
    ELSE IF r.Type = <<>> THEN "missing required field 'type'"
    ELSE ""

\* c.JSON(http.StatusBadRequest, gin.H{...})
BadRequest(error, extra) ==
    [status |-> 400, contentType |-> "application/json; charset=utf-8",
     cacheControl |-> "", body |-> [kind |-> "json", error |-> error,
                                    extra |-> extra],
     rendered |-> FALSE]

\* renderAndRespond; ok tells whether NewTextMeasurer succeeds inside Render
renderAndRespond(r, ok) ==
    [status |-> 200, contentType |-> "image/svg+xml",
     cacheControl |-> "public, max-age=3600",
     body |-> Render(r, DefaultConfig, ok),
     rendered |-> TRUE]

\* the steps both handlers end with
ValidateAndRender(r, ok) ==
    IF validateResource(r) # ""
    THEN BadRequest(validateResource(r), {})
    ELSE renderAndRespond(r, ok)

NoRequest ==
    [method |-> "", hasParam |-> FALSE, encodingOK |-> FALSE, jsonOK |-> FALSE,
     resource |-> NoResource]

NoResponse ==
    [status |-> 0, contentType |-> "", cacheControl |-> "",
     body |-> [kind |-> "none"], rendered |-> FALSE]

\* the trees a request body decodes to
HandlerResources ==
    {MkResource(n, t, <<>>, es, <<>>) :
        n \in {<<>>, <<"R">>}, t \in {<<>>, <<"D", "R">>},
        es \in {<<>>} \cup {<<MkElement(p, <<>>, <<>>)>> : p \in FlattenProfiles}}

----------------------------------------------------------------------------
(* Inputs of the rendering checks *)

\* element contents that exercise the icon selection
IconProfiles ==
    {Profile(<<"a">>, StrBackboneElement, <<>>, <<>>, "", <<>>),
     Profile(<<"b">>, StrExtension, <<>>, <<>>, "", <<>>),
     Profile(<<"c">>, StrReference \o StrChoice, <<>>, <<>>, "", <<>>),
     Profile(<<"d">>, StrReference \o <<"(", "P", ")">>, <<>>, <<>>, "", <<>>),
     Profile(<<"e">>, <<"v">> \o StrChoice, <<>>, <<>>, "", <<>>),
     Profile(<<"f">>, <<"i", "d">>, <<>>, <<>>, "", <<>>),
     Profile(<<"g">>, <<"x">> \o StrReference, <<>>, <<>>, "", <<>>)}

\* the trees of the icon selection: the root's type is varied too
IconResources ==
    {[r EXCEPT !.Type = t] :
        r \in ResourcesUpTo(IconProfiles, MaxRenderNodes),
        t \in {<<"D", "R">>, StrExtension, <<"v">> \o StrChoice}}

\* element contents that carry the five special characters of XML
EscapeProfiles ==
    {[Profile(<<"a", "<">>, <<"x", ">", " ", "\"">>, <<"&">>,
              <<"'", " ", "&", "a", "m", "p", ";">>, "", <<"<">>)
         EXCEPT !.Flags = <<<<"S">>, <<"<">>, <<"T", "U">>>>,
                !.TypeRef = <<"u", "&", "\"">>],
     Profile(<<"b", "&">>, <<"W", " ", ">">>, <<"<", "1">>,
             <<">", " ", "<">>, "todo", <<"'">>)}

\* the trees of the escaping check, also with special characters at the root
\* and in the extensions of the root
EscapeResources ==
    LET plain == ResourcesUpTo(EscapeProfiles, MaxRenderNodes)
        Spiced(r) ==
            [r EXCEPT !.Name = <<"R", "&">>, !.Description = <<"<", ">">>,
                      !.Extensions =
                          [i \in 1..Len(r.Extensions) |->
                              [r.Extensions[i] EXCEPT
                                  !.Name = @ \o <<"'">>,
                                  !.Type = <<"\"">>,
                                  !.Cardinality = <<"<">>,
                                  !.Description = <<"&", "l", "t", ";">>]]]
    IN  plain \cup {Spiced(r) : r \in plain}

\* descriptions of the elements whose usage is checked
UsageDescriptions ==
    {<<>>, <<"x">>, <<"T", "O", "D", "O", ":", " ", "x">>,
     <<"T", "O", "D", "O", " ", "x">>, <<"T", "O", "D", "O">>,
     <<"T", "O", "D", "O", ":">>, <<"t", "o", "d", "o", ":", " ", "x">>,
     <<"W", " ", "W", " ", "W", " ", "W", " ", "W">>}

\* element contents that exercise the usage rules of the description cell
UsageProfiles ==
    {Profile(<<"a">>, <<"i", "d">>, <<>>, d, u, n) :
        d \in UsageDescriptions, u \in {"", "used", "todo", "not-used"},
        n \in {<<>>, <<"n">>}}

\* a root with one element
UsageResources ==
    {MkResource(<<"R">>, <<"D", "R">>, <<>>, <<MkElement(p, <<>>, <<>>)>>, <<>>) :
        p \in UsageProfiles}

\* a chain of n elements, each the only child of the one before
RECURSIVE ChainElements(_)
ChainElements(n) ==
    IF n = 0 THEN <<>>
    ELSE <<MkElement(Profile(<<"a">>, <<"i", "d">>, <<>>, <<>>, "", <<>>),
                     ChainElements(n - 1), <<>>)>>

\* a root above a chain of every depth up to MaxDepth
ChainResources ==
    {MkResource(<<"R">>, <<"D", "R">>, <<>>, ChainElements(n), <<>>) :
        n \in 0..MaxDepth}

\* the configurations of concurrent calls
CallConfigs == {DefaultConfig, [DefaultConfig EXCEPT !.IndentPx = 150]}

\* the configurations of the escaping and usage checks
CellConfigs ==
    {DefaultConfig,
     [DefaultConfig EXCEPT !.TypeColWidth = 45, !.DescriptionColWidth = 60]}

----------------------------------------------------------------------------
(* Operations *)

IdleFlatten == flat = <<>>
IdleWrap == text = <<>> /\ maxWidth = 0 /\ lines = <<>>
IdleRender ==
    resource = NoResource /\ config = DefaultConfig /\ fontOK = TRUE
    /\ rows = <<>> /\ svg = NoDocument
IdleCalls == calls = <<>>
IdleHandler == request = NoRequest /\ response = NoResponse
IdleTruncate == truncation = NoTruncation

\* a call of Flatten on any bounded resource
InitFlatten ==
    /\ pc = "flatten"
    /\ resource \in ResourcesUpTo(FlattenProfiles, MaxNodes)
    /\ flat = <<>>
    /\ config = DefaultConfig /\ fontOK = TRUE /\ rows = <<>> /\ svg = NoDocument
    /\ IdleWrap /\ IdleCalls /\ IdleHandler /\ IdleTruncate

\* a call of WrapText on any bounded text and width
InitWrap ==
    /\ pc = "wrap"
    /\ text \in SeqsUpTo({"i", "W", " "}, MaxTextLen)
    /\ maxWidth \in (0 - NegWidths)..MaxWidth
    /\ lines = <<>>
    /\ IdleFlatten /\ IdleRender /\ IdleCalls /\ IdleHandler /\ IdleTruncate

\* a call of Render on the given resources and configurations
InitRenderOn(resources, configs, oks) ==
    /\ pc = "render"
    /\ resource \in resources
    /\ config \in configs
    /\ fontOK \in oks
    /\ rows = <<>> /\ svg = NoDocument
    /\ IdleFlatten /\ IdleWrap /\ IdleCalls /\ IdleHandler /\ IdleTruncate

\* a call of Render on any bounded resource and configuration
InitRender ==
    InitRenderOn(ResourcesUpTo(RenderProfiles, MaxRenderNodes), Configs, BOOLEAN)

InitIcons == InitRenderOn(IconResources, {DefaultConfig}, {TRUE})

InitEscape == InitRenderOn(EscapeResources, CellConfigs, {TRUE})

InitUsage == InitRenderOn(UsageResources, CellConfigs, {TRUE})

InitDeep == InitRenderOn(ChainResources, Configs, {TRUE})

\* a call of TruncateText on any bounded text and width
InitTruncate ==
    /\ pc = "truncate"
    /\ text \in SeqsUpTo({"i", "W"}, MaxTextLen)
    /\ maxWidth \in (0 - NegWidths)..MaxWidth
    /\ lines = <<>>
    /\ truncation = NoTruncation
    /\ IdleFlatten /\ IdleRender /\ IdleCalls /\ IdleHandler

\* two calls of Render at once, each on its own resource and configuration
InitCalls ==
    /\ pc = "calls"
    /\ calls \in [Calls ->
                    {NewCall(r, c, ok) :
                        r \in ResourcesUpTo(FlattenProfiles, MaxCallNodes),
                        c \in CallConfigs, ok \in BOOLEAN}]
    /\ IdleFlatten /\ IdleWrap /\ IdleRender /\ IdleHandler /\ IdleTruncate

\* a request to GET /render or POST /render
InitHandler ==
    /\ pc = "handle"
    /\ request \in [method : {"GET", "POST"}, hasParam : BOOLEAN,
                    encodingOK : BOOLEAN, jsonOK : BOOLEAN,
                    resource : HandlerResources]
    /\ fontOK \in BOOLEAN
    /\ response = NoResponse
    /\ resource = NoResource /\ config = DefaultConfig
    /\ rows = <<>> /\ svg = NoDocument
    /\ IdleFlatten /\ IdleWrap /\ IdleCalls /\ IdleTruncate

Init ==
    \/ InitFlatten
    \/ InitWrap
    \/ InitRender
    \/ InitIcons
    \/ InitEscape
    \/ InitUsage
    \/ InitDeep
    \/ InitTruncate
    \/ InitCalls
    \/ InitHandler

DoFlatten ==
    /\ pc = "flatten"
    /\ flat' = Flatten(resource)
    /\ pc' = "flattened"
    /\ UNCHANGED <<resource, text, maxWidth, lines, config, fontOK, rows, svg,
                   calls, request, response, truncation>>

DoWrapText ==
    /\ pc = "wrap"
    /\ lines' = WrapText(text, maxWidth)
    /\ pc' = "wrapped"
    /\ UNCHANGED <<resource, flat, text, maxWidth, config, fontOK, rows, svg,
                   calls, request, response, truncation>>

DoRender ==
    /\ pc = "render"
    /\ rows' = IF fontOK THEN RenderRows(resource, config) ELSE <<>>
    /\ svg' = Render(resource, config, fontOK)
    /\ pc' = "rendered"
    /\ UNCHANGED <<resource, flat, text, maxWidth, lines, config, fontOK,
                   calls, request, response, truncation>>

\* TruncateText up to its loop: the early returns, or low, high := 0, len(runes)
TruncateStart ==
    /\ pc = "truncate"
    /\ IF text = <<>>
       THEN pc' = "truncated" /\ truncation' = [truncation EXCEPT !.result = <<>>]
       ELSE IF MeasureString(text) <= maxWidth
       THEN pc' = "truncated" /\ truncation' = [truncation EXCEPT !.result = text]
       ELSE IF maxWidth - MeasureString(Ellipsis) <= 0
       THEN pc' = "truncated"
            /\ truncation' = [truncation EXCEPT !.result = Ellipsis]
       ELSE pc' = "search"
            /\ truncation' = [low |-> 0, high |-> Len(text), result |-> <<>>]
    /\ UNCHANGED <<resource, flat, text, maxWidth, lines, config, fontOK, rows,
                   svg, calls, request, response>>

\* one iteration of the loop "for low < high"
TruncateSearch ==
    /\ pc = "search"
    /\ truncation.low < truncation.high
    /\ LET mid == Mid(truncation.low, truncation.high)
           availableWidth == maxWidth - MeasureString(Ellipsis)
       IN  truncation' =
               IF MeasureString(SubSeq(text, 1, mid)) <= availableWidth
               THEN [truncation EXCEPT !.low = mid]
               ELSE [truncation EXCEPT !.high = mid - 1]
    /\ UNCHANGED <<pc, resource, flat, text, maxWidth, lines, config, fontOK,
                   rows, svg, calls, request, response>>

\* the end of the loop and the return
TruncateReturn ==
    /\ pc = "search"
    /\ ~(truncation.low < truncation.high)
    /\ truncation' =
           [truncation EXCEPT
               !.result = IF truncation.low = 0 THEN Ellipsis
                          ELSE SubSeq(text, 1, truncation.low) \o Ellipsis]
    /\ pc' = "truncated"
    /\ UNCHANGED <<resource, flat, text, maxWidth, lines, config, fontOK, rows,
                   svg, calls, request, response>>

TruncateText == TruncateStart \/ TruncateSearch \/ TruncateReturn

\* one step of one of the calls in flight
CallStep(p) ==
    /\ pc = "calls"
    /\ \/ CallNewTextMeasurer(p)
       \/ CallNameColumnWidth(p)
       \/ CallPrepareRows(p)
       \/ CallBuildSVG(p)
    /\ UNCHANGED <<pc, resource, flat, text, maxWidth, lines, config, fontOK,
                   rows, svg, request, response, truncation>>

\* RenderHandler: GET /render?resource=...
RenderHandler ==
    /\ pc = "handle"
    /\ request.method = "GET"
    /\ response' =
          IF ~request.hasParam
          THEN BadRequest("Missing 'resource' query parameter", {"usage"})
          ELSE IF ~request.encodingOK
          THEN BadRequest("Invalid encoding (expected Brotli + Base64URL)",
                          {"details"})
          ELSE IF ~request.jsonOK
          THEN BadRequest("Invalid JSON", {"details"})
          ELSE ValidateAndRender(request.resource, fontOK)
    /\ pc' = "handled"
    /\ UNCHANGED <<resource, flat, text, maxWidth, lines, config, fontOK, rows,
                   svg, calls, request, truncation>>

\* RenderPOSTHandler: POST /render with a JSON body
RenderPOSTHandler ==
    /\ pc = "handle"
    /\ request.method = "POST"
    /\ response' =
          IF ~request.jsonOK
          THEN BadRequest("Invalid JSON body", {"details"})
          ELSE ValidateAndRender(request.resource, fontOK)
    /\ pc' = "handled"
    /\ UNCHANGED <<resource, flat, text, maxWidth, lines, config, fontOK, rows,
                   svg, calls, request, truncation>>

Next ==
    \/ DoFlatten
    \/ DoWrapText
    \/ DoRender
    \/ \E p \in Calls : CallStep(p)
    \/ RenderHandler
    \/ RenderPOSTHandler
    \/ TruncateText

Spec == Init /\ [][Next]_vars

SpecFlatten == InitFlatten /\ [][DoFlatten]_vars

SpecWrap == InitWrap /\ [][DoWrapText]_vars

SpecRender == InitRender /\ [][DoRender]_vars

SpecIcons == InitIcons /\ [][DoRender]_vars

SpecEscape == InitEscape /\ [][DoRender]_vars

SpecUsage == InitUsage /\ [][DoRender]_vars

SpecDeep == InitDeep /\ [][DoRender]_vars

\* a call that is running goes on running: it is not suspended for ever
SpecTruncate ==
    InitTruncate /\ [][TruncateText]_vars /\ WF_vars(TruncateText)

SpecCalls == InitCalls /\ [][\E p \in Calls : CallStep(p)]_vars

SpecHandler == InitHandler /\ [][RenderHandler \/ RenderPOSTHandler]_vars

----------------------------------------------------------------------------
(* Vocabulary of the properties *)

\* number of nodes (the root and every nested element) of a tree
RECURSIVE CountElements(_)
CountElements(es) ==
    IF es = <<>> THEN 0
    ELSE 1 + CountElements(Head(es).Elements) + CountElements(Tail(es))

CountNodes(r) == 1 + CountElements(r.Elements)

\* number of extensions declared below a sequence of elements
RECURSIVE CountElementExtensions(_)
CountElementExtensions(es) ==
    IF es = <<>> THEN 0
    ELSE Len(Head(es).Extensions) + CountElementExtensions(Head(es).Elements)
         + CountElementExtensions(Tail(es))

CountExtensions(r) == Len(r.Extensions) + CountElementExtensions(r.Elements)

\* the rows a pre-order traversal visits: a node, then its children with
\* their subtrees, then its extensions.  extLast tells, for an extension
\* row, whether it is the final extension of its owner.
ExtensionVisits(xs, d, ownerPath) ==
    [j \in 1..Len(xs) |->
        [kind |-> "extension", name |-> xs[j].Name, depth |-> d,
         path |-> ownerPath \o <<".">> \o xs[j].Name,
         extLast |-> j = Len(xs), ext |-> xs[j]]]

RECURSIVE PreOrderElements(_, _, _)
PreOrderElements(es, d, ownerPath) ==
    IF es = <<>> THEN <<>>
    ELSE LET e == Head(es)
             path == ownerPath \o <<".">> \o e.Name
         IN  <<[kind |-> "element", name |-> e.Name, depth |-> d, path |-> path,
                extLast |-> FALSE, ext |-> <<>>]>>
             \o PreOrderElements(e.Elements, d + 1, path)
             \o ExtensionVisits(e.Extensions, d + 1, path)
             \o PreOrderElements(Tail(es), d, ownerPath)

PreOrder(r) ==
    <<[kind |-> "root", name |-> r.Name, depth |-> 0, path |-> r.Name,
       extLast |-> FALSE, ext |-> <<>>]>>
    \o PreOrderElements(r.Elements, 1, r.Name)
    \o ExtensionVisits(r.Extensions, 1, r.Name)

\* how many entries of sequence s satisfy having name nm
Occurrences(s, nm) == Cardinality({i \in 1..Len(s) : s[i] = nm})

FlatNames == [i \in 1..Len(flat) |-> flat[i].Element.Name]

\* the names a tree holds, nodes and extensions, in any order
RECURSIVE ElementNames(_)
ElementNames(es) ==
    IF es = <<>> THEN <<>>
    ELSE <<Head(es).Name>>
         \o [j \in 1..Len(Head(es).Extensions) |-> Head(es).Extensions[j].Name]
         \o ElementNames(Head(es).Elements) \o ElementNames(Tail(es))

TreeNames(r) ==
    <<r.Name>> \o [j \in 1..Len(r.Extensions) |-> r.Extensions[j].Name]
    \o ElementNames(r.Elements)

\* in a depth-annotated row list f: the owner of row j is the nearest earlier
\* row one level up; row k has a later sibling when a later row of the same
\* depth follows before the list climbs above that depth
AncestorAt(f, j, d) ==
    CHOOSE k \in 1..j : f[k].Depth = d /\ \A q \in (k + 1)..j : f[q].Depth > d

HasLaterSibling(f, k) ==
    \E m \in (k + 1)..Len(f) :
        /\ f[m].Depth = f[k].Depth
        /\ \A q \in (k + 1)..m : f[q].Depth >= f[k].Depth

\* the value "%.0f" printed
DigitValue(ch) == CHOOSE v \in 0..9 : DigitChar(v) = ch

RECURSIVE ParseF0(_)
ParseF0(s) ==
    IF s = <<>> THEN 0
    ELSE ParseF0(SubSeq(s, 1, Len(s) - 1)) * 10 + DigitValue(s[Len(s)])

----------------------------------------------------------------------------
(* Properties of Flatten *)

\* C1: Flatten returns one row per node plus one row per extension: the row
\* count is node count + extension count, and every name of the tree occurs
\* among the rows as often as in the tree (none omitted, none emitted twice).
Thm_C1_RowCount ==
    pc = "flattened" =>
        /\ Len(flat) = CountNodes(resource) + CountExtensions(resource)
        /\ \A i \in 1..Len(TreeNames(resource)) :
               Occurrences(FlatNames, TreeNames(resource)[i])
                   = Occurrences(TreeNames(resource), TreeNames(resource)[i])

\* C1 witness: a flattened tree with nested elements, an element-level
\* extension and a root-level extension
Wit_C1_RowCount ==
    /\ pc = "flattened"
    /\ Len(resource.Extensions) >= 1
    /\ \E i \in 1..Len(resource.Elements) :
           /\ Len(resource.Elements[i].Elements) >= 1
           /\ Len(resource.Elements[i].Extensions) >= 1
    /\ Len(flat) = 5

\* C2: the rows are the pre-order traversal: a node's row, then its child
\* elements with their subtrees in order, then its extensions in order; the
\* root has depth 0 and every child or extension row its owner's depth + 1.
Thm_C2_PreOrder ==
    pc = "flattened" =>
        /\ Len(flat) = Len(PreOrder(resource))
        /\ flat[1].Depth = 0
        /\ \A i \in 1..Len(flat) :
               /\ flat[i].Element.Name = PreOrder(resource)[i].name
               /\ flat[i].Depth = PreOrder(resource)[i].depth

\* C2 witness: an element with a child and an extension of its own, followed
\* by a sibling
Wit_C2_PreOrder ==
    /\ pc = "flattened"
    /\ Len(resource.Elements) = 2
    /\ Len(resource.Elements[1].Elements) = 1
    /\ Len(resource.Elements[1].Extensions) = 1
    /\ resource.Elements[1].Name # resource.Elements[2].Name

\* C3: for every row at depth d >= 2 and every i in 0..d-2, ParentLasts[i] is
\* true exactly when the row's ancestor at depth i+1 was the last sibling at
\* its level (no further sibling of that ancestor follows below).
CE_C3_AncestorVector ==
    pc = "flattened" =>
        \A j \in 1..Len(flat) :
            flat[j].Depth >= 2 =>
                \A i \in 0..(flat[j].Depth - 2) :
                    /\ i + 1 <= Len(flat[j].ParentLasts)
                    /\ flat[j].ParentLasts[i + 1]
                           = ~HasLaterSibling(flat, AncestorAt(flat, j, i + 1))

\* C4: for every node with k >= 1 extensions, the final one of its extension
\* rows is marked "is last" and the other k-1 are not.
CE_C4_LastExtension ==
    pc = "flattened" =>
        \A i \in 1..Len(flat) :
            PreOrder(resource)[i].kind = "extension" =>
                flat[i].IsLast = PreOrder(resource)[i].extLast

\* C5: a row is marked "is last" only if no later row has the same owner.
CE_C5_LastAbsorbed ==
    pc = "flattened" =>
        \A j \in 1..Len(flat) : flat[j].IsLast => ~HasLaterSibling(flat, j)

\* C6: every row's path is the dotted path from the root: the root's name,
\* parent path + "." + name for an element, owner path + "." + name for an
\* extension (root-level extensions included).
CE_C6_Path ==
    pc = "flattened" =>
        \A i \in 1..Len(flat) : flat[i].Path = PreOrder(resource)[i].path

\* C7: the root row has depth 0 and is "is last" exactly when the root has
\* neither children nor extensions; a leaf root flattens to that single row,
\* with an empty ancestor vector.
Thm_C7_RootRow ==
    pc = "flattened" =>
        /\ flat[1].Depth = 0
        /\ flat[1].ParentLasts = <<>>
        /\ flat[1].IsLast
               = (Len(resource.Elements) = 0 /\ Len(resource.Extensions) = 0)
        /\ (Len(resource.Elements) = 0 /\ Len(resource.Extensions) = 0)
               => (Len(flat) = 1 /\ flat[1].IsLast)

\* C7 witness: a leaf root has been flattened
Wit_C7_RootRow ==
    /\ pc = "flattened"
    /\ resource.Elements = <<>>
    /\ resource.Extensions = <<>>
    /\ Len(flat) = 1

----------------------------------------------------------------------------
(* Properties of the text measurer *)

\* a line that is one single word of the text
IsWordOf(line, t) ==
    /\ \E w \in 1..Len(Fields(t)) : line = Fields(t)[w]
    /\ \A q \in 1..Len(line) : ~IsSpace(line[q])

\* C8 (as stated): every line WrapText returns measures at most maxWidth,
\* unless the line is one single word of the text that is by itself wider
\* than maxWidth.
CE_C8_WrapWidth ==
    pc = "wrapped" =>
        \A k \in 1..Len(lines) :
            \/ MeasureString(lines[k]) <= maxWidth
            \/ IsWordOf(lines[k], text) /\ MeasureString(lines[k]) > maxWidth

\* C8 (amended): every line WrapText returns measures at most maxWidth,
\* unless the line is one single word of the text that is by itself wider
\* than maxWidth, or maxWidth is negative and the line is the empty line
\* returned for an empty or blank text.
Thm_C8_WrapWidth ==
    pc = "wrapped" =>
        \A k \in 1..Len(lines) :
            \/ MeasureString(lines[k]) <= maxWidth
            \/ IsWordOf(lines[k], text) /\ MeasureString(lines[k]) > maxWidth
            \/ /\ maxWidth < 0
               /\ lines = << <<>> >>
               /\ Fields(text) = <<>>

\* C8 witness: a wrapped text with one over-wide single-word line and one
\* line of several words
Wit_C8_WrapWidth ==
    /\ pc = "wrapped"
    /\ Len(lines) >= 2
    /\ \E k \in 1..Len(lines) : MeasureString(lines[k]) > maxWidth
    /\ \E k \in 1..Len(lines) : \E q \in 1..Len(lines[k]) : IsSpace(lines[k][q])

----------------------------------------------------------------------------
(* Properties of the layout engine *)

\* the largest line count among a row's three wrapped cells
RowLineCount(row) ==
    Max(Len(row.NameLines), Max(Len(row.TypeLines), Len(row.DescLines)))

\* C9: every row's height is max(MinRowHeight, RowTopMargin + L * LineHeight
\* + RowBottomMargin), L the largest line count of its name, type and
\* description cells; so it is never below MinRowHeight.
Thm_C9_RowHeight ==
    pc = "rendered" =>
        \A i \in 1..Len(rows) :
            /\ rows[i].RowHeight
                   = Max(config.MinRowHeight,
                         RowTopMargin + RowLineCount(rows[i]) * config.LineHeight
                             + RowBottomMargin)
            /\ rows[i].RowHeight >= config.MinRowHeight

\* C9 witness: a render with one row held up by the minimum and one row whose
\* description cell has the most lines and lifts it above the minimum
Wit_C9_RowHeight ==
    /\ pc = "rendered"
    /\ \E i \in 1..Len(rows) :
           RowTopMargin + RowLineCount(rows[i]) * config.LineHeight
               + RowBottomMargin < config.MinRowHeight
    /\ \E i \in 1..Len(rows) :
           /\ Len(rows[i].DescLines) > Len(rows[i].TypeLines)
           /\ Len(rows[i].DescLines) > Len(rows[i].NameLines)
           /\ rows[i].RowHeight > config.MinRowHeight

\* C10: for a successful render the declared canvas width is the sum of the
\* five column widths and the declared height is TitleHeight + HeaderHeight
\* + the sum of the row heights + SVGHeightPadding.
Thm_C10_Canvas ==
    (pc = "rendered" /\ fontOK) =>
        /\ svg.kind = "diagram"
        /\ ParseF0(svg.header.width)
               = calculateNameColumnWidth(resource, config) + config.FlagsColWidth
                 + config.CardinalityColWidth + config.TypeColWidth
                 + config.DescriptionColWidth
        /\ ParseF0(svg.header.height)
               = config.TitleHeight + config.HeaderHeight
                 + SumSeq([i \in 1..Len(rows) |-> rows[i].RowHeight])
                 + SVGHeightPadding

\* C10 witness: a successful render of several rows of different heights,
\* with a computed name column that differs from the configured one
Wit_C10_Canvas ==
    /\ pc = "rendered"
    /\ fontOK
    /\ Len(rows) >= 3
    /\ \E i, j \in 1..Len(rows) : rows[i].RowHeight # rows[j].RowHeight
    /\ calculateNameColumnWidth(resource, config) # config.NameColWidth

----------------------------------------------------------------------------
(* Properties of the row renderer *)

\* s ends with e; s begins with b
EndsWith(s, e) == \E k \in 0..Len(s) : s = SubSeq(s, 1, k) \o e
BeginsWith(s, b) == \E k \in 0..Len(s) : s = b \o SubSeq(s, k + 1, Len(s))

\* the number and the order (1 first) of the rule that decides the icon of a
\* non-root row of type t
IconRule(t, hasChildren) ==
    IF t = StrBackboneElement THEN 1
    ELSE IF t = StrExtension THEN 2
    ELSE IF EndsWith(t, StrChoice) THEN 3
    ELSE IF BeginsWith(t, StrReference) THEN 4
    ELSE IF hasChildren THEN 5
    ELSE 6

IconOfRule == <<"backbone", "extension", "choice", "reference", "backbone", "element">>

\* C12: the icon of the root row (row index 0) is the resource icon whatever
\* its type; the icon of any other row is decided by the first rule that
\* applies: type BackboneElement -> backbone; type Extension -> extension;
\* type ending in [x] -> choice; type beginning with Reference -> reference;
\* at least one child element -> backbone; otherwise element.  No non-root
\* row gets the resource icon.
Thm_C12_Icon ==
    pc = "rendered" =>
        /\ Len(svg.dataRows) = Len(rows)
        /\ \A i \in 1..Len(rows) :
              LET e == rows[i].Element.Element
                  icon == svg.dataRows[i].icon
              IN  /\ i = 1 => icon = "resource"
                  /\ i > 1 => /\ icon # "resource"
                              /\ icon = IconOfRule[IconRule(e.Type,
                                                            e.Elements # <<>>)]

\* C12 witness: a root of type Extension drawn as a resource, above a row
\* whose type both begins with Reference and ends in [x] drawn as a choice
\* and that has a child
Wit_C12_Icon ==
    /\ pc = "rendered"
    /\ resource.Type = StrExtension
    /\ svg.dataRows[1].icon = "resource"
    /\ \E i \in 2..Len(rows) :
          /\ rows[i].Element.Element.Type = StrReference \o StrChoice
          /\ rows[i].Element.Element.Elements # <<>>
          /\ svg.dataRows[i].icon = "choice"

\* the document of renderFallback
FallbackDocument ==
    [kind |-> "fallback",
     header |-> [width |-> <<"4", "0", "0">>, height |-> <<"1", "0", "0">>,
                 viewBox |-> <<>>],
     clipPaths |-> <<>>,
     dataRows |-> <<>>]

\* C13: when the font cannot be initialised, Render returns the fixed
\* 400 x 100 fallback document and performs no flattening, measurement or
\* layout; otherwise it returns a complete diagram, with every row.  It never
\* returns a partial document.
Thm_C13_Fallback ==
    pc = "calls" =>
        \A p \in Calls :
            LET call == calls[p]
            IN  /\ (call.at = "returned" /\ ~call.fontOK) =>
                       /\ call.result = FallbackDocument
                       /\ ParseF0(call.result.header.width) = 400
                       /\ ParseF0(call.result.header.height) = 100
                       /\ call.rows = <<>>
                       /\ call.config = call.given
                /\ (call.at = "returned" /\ call.fontOK) =>
                       /\ call.result.kind = "diagram"
                       /\ Len(call.result.clipPaths) = 5
                       /\ Len(call.result.dataRows)
                              = CountNodes(call.resource)
                                + CountExtensions(call.resource)
                /\ ~call.fontOK => call.at \in {"NewTextMeasurer", "returned"}
                /\ call.at # "returned" => call.result = NoDocument

\* C13 witness: a call on a tree of two rows whose font failed has returned,
\* next to a call that returned a diagram
Wit_C13_Fallback ==
    /\ pc = "calls"
    /\ \E p, q \in Calls :
          /\ calls[p].at = "returned" /\ ~calls[p].fontOK
          /\ calls[p].resource.Elements # <<>>
          /\ calls[p].result.kind = "fallback"
          /\ calls[q].at = "returned" /\ calls[q].fontOK

\* what an XML reader makes of an escaped text: each of the five entities
\* stands for its character; a raw special character, or an ampersand that
\* starts no entity, is not well-formed text
RECURSIVE Decode(_)
Decode(t) ==
    IF t = <<>> THEN <<>>
    ELSE IF BeginsWith(t, <<"&", "a", "m", "p", ";">>)
         THEN <<"&">> \o Decode(SubSeq(t, 6, Len(t)))
    ELSE IF BeginsWith(t, <<"&", "l", "t", ";">>)
         THEN <<"<">> \o Decode(SubSeq(t, 5, Len(t)))
    ELSE IF BeginsWith(t, <<"&", "g", "t", ";">>)
         THEN <<">">> \o Decode(SubSeq(t, 5, Len(t)))
    ELSE IF BeginsWith(t, <<"&", "q", "u", "o", "t", ";">>)
         THEN <<"\"">> \o Decode(SubSeq(t, 7, Len(t)))
    ELSE IF BeginsWith(t, <<"&", "a", "p", "o", "s", ";">>)
         THEN <<"'">> \o Decode(SubSeq(t, 7, Len(t)))
    ELSE IF Head(t) \in {"&", "<", ">", "\"", "'"}
         THEN <<"not well-formed">>
    ELSE <<Head(t)>> \o Decode(Tail(t))

DecodeAll(ls) == [k \in 1..Len(ls) |-> Decode(ls[k])]

\* the words of a sequence of lines, in order
Words(ls) == Concat([k \in 1..Len(ls) |-> Fields(ls[k])])

\* the five special characters of XML
Specials == {"&", "<", ">", "\"", "'"}

HasSpecial(t) == \E k \in 1..Len(t) : t[k] \in Specials

\* C14: every string of the tree that is written into a row - name, flags,
\* cardinality, type, type-reference URL, description and notes - is written
\* escaped exactly once: read back as XML, each written text is the text of
\* the tree, so no special character is written raw or escaped twice.
Thm_C14_Escaped ==
    pc = "rendered" =>
        /\ Len(svg.dataRows) = Len(rows)
        /\ \A i \in 1..Len(rows) :
              LET e == rows[i].Element.Element
                  d == svg.dataRows[i]
              IN  /\ DecodeAll(d.name.lines) = rows[i].NameLines
                  /\ Words(DecodeAll(d.name.lines)) = Fields(e.Name)
                  /\ Len(d.flags) = Len(e.Flags)
                  /\ \A k \in 1..Len(e.Flags) :
                        e.Flags[k] \notin {<<"S">>, <<"?", "!">>}
                            => Decode(d.flags[k].text) = e.Flags[k]
                  /\ Decode(d.card) = e.Cardinality
                  /\ DecodeAll(d.type.lines) = rows[i].TypeLines
                  /\ Words(DecodeAll(d.type.lines)) = Fields(e.Type)
                  /\ e.TypeRef # <<>> =>
                        /\ Len(d.type.href) = 1
                        /\ Decode(d.type.href[1]) = e.TypeRef
                  /\ DecodeAll(d.desc.lines) = rows[i].DescLines
                  /\ Words(DecodeAll(d.desc.lines))
                        = Fields(buildDescriptionText(rows[i].Element)[1])

\* C14 witness: a rendered row whose name, flags, cardinality, type,
\* type-reference URL, description and notes all hold special characters, the
\* description one that reads like an entity already
Wit_C14_Escaped ==
    /\ pc = "rendered"
    /\ \E i \in 1..Len(rows) :
          LET e == rows[i].Element.Element
          IN  /\ HasSpecial(e.Name) /\ HasSpecial(e.Cardinality)
              /\ HasSpecial(e.Type) /\ HasSpecial(e.TypeRef)
              /\ HasSpecial(e.Notes)
              /\ \E k \in 1..Len(e.Flags) : HasSpecial(e.Flags[k])
              /\ \E k \in 1..Len(e.Description) :
                    BeginsWith(SubSeq(e.Description, k, Len(e.Description)),
                               <<"&", "a", "m", "p", ";">>)
              /\ Len(svg.dataRows[i].desc.lines) >= 1

----------------------------------------------------------------------------
(* Properties of concurrent calls *)

\* C15: Render calls that run at once do not affect one another: whatever
\* the interleaving of their steps, each call returns the document it returns
\* when it runs alone on its own tree and configuration.
Thm_C15_Independent ==
    pc = "calls" =>
        \A p \in Calls :
            calls[p].at = "returned" =>
                calls[p].result
                    = Render(calls[p].resource, calls[p].given, calls[p].fontOK)

\* C15 witness: a call has returned its diagram while another call, on
\* another tree, is between the computation of its name column and its rows,
\* and the two computed different name columns
Wit_C15_Independent ==
    /\ pc = "calls"
    /\ \E p, q \in Calls :
          /\ calls[p].at = "returned" /\ calls[p].fontOK
          /\ calls[q].at = "prepareRows"
          /\ calls[p].resource # calls[q].resource
          /\ calls[p].config.NameColWidth # calls[q].config.NameColWidth

----------------------------------------------------------------------------
(* Properties of the handlers *)

\* every step that precedes the renderer in the handler of the request
StepsSucceed(req) ==
    /\ req.method = "GET" => (req.hasParam /\ req.encodingOK)
    /\ req.jsonOK
    /\ req.resource.Name # <<>>
    /\ req.resource.Type # <<>>

\* the request reaches validateResource
Parsed(req) ==
    /\ req.method = "GET" => (req.hasParam /\ req.encodingOK)
    /\ req.jsonOK

\* C16: a handler calls the renderer only after every step (parameter
\* present, decoding, JSON parsing, a non-empty name and type) has succeeded;
\* on any failure it answers 400 with a JSON object that has an "error" field,
\* and no SVG body or SVG headers; a missing name is reported before a
\* missing type.
Thm_C16_Handler ==
    pc = "handled" =>
        /\ response.rendered <=> StepsSucceed(request)
        /\ ~StepsSucceed(request) =>
              /\ response.status = 400
              /\ response.body.kind = "json"
              /\ response.body.error # ""
              /\ response.contentType # "image/svg+xml"
              /\ response.cacheControl = ""
        /\ StepsSucceed(request) =>
              /\ response.status = 200
              /\ response.contentType = "image/svg+xml"
              /\ response.body = Render(request.resource, DefaultConfig, fontOK)
        /\ (Parsed(request) /\ request.resource.Name = <<>>) =>
              response.body.error = "missing required field 'name'"
        /\ (Parsed(request) /\ request.resource.Name # <<>>
            /\ request.resource.Type = <<>>) =>
              response.body.error = "missing required field 'type'"

\* C16 witness: a GET request that decodes and parses to a tree without name
\* and without type was answered 400 for the name
Wit_C16_Handler ==
    /\ pc = "handled"
    /\ request.method = "GET"
    /\ Parsed(request)
    /\ request.resource.Name = <<>> /\ request.resource.Type = <<>>
    /\ request.resource.Elements # <<>>
    /\ response.status = 400
    /\ response.body.error = "missing required field 'name'"

----------------------------------------------------------------------------
(* Properties of the description cell *)

StrTodoMarker == <<"T", "O", "D", "O", ":">>

\* the text of the description cell of row i as the document shows it: the
\* words of its lines
DescWordsShown(i) == Words(DecodeAll(svg.dataRows[i].desc.lines))

\* C17: for every element whose usage is "todo", whatever its description,
\* the text of the description cell begins with the marker "TODO:", and the
\* marker is a prefix once only: added when absent, not added again when the
\* description begins with it already; the cell is wrapped as bold text,
\* against the reduced width, and written in the todo style.
CE_C17_TodoMarker ==
    pc = "rendered" =>
        \A i \in 1..Len(rows) :
            LET e == rows[i].Element.Element
                shown == DescWordsShown(i)
                width == ((RenderConfig(resource, config).DescriptionColWidth
                           - config.Padding * 2 - FontRenderingBuffer)
                          * BoldTextWidthPercent) \div 100
            IN  e.Usage = "todo" =>
                    /\ shown # <<>>
                    /\ BeginsWith(shown[1], StrTodoMarker)
                    /\ BeginsWith(e.Description, StrTodoMarker)
                           => Fields(e.Description)
                                  = SubSeq(shown, 1, Len(Fields(e.Description)))
                    /\ svg.dataRows[i].desc.class = "todo"
                    /\ \A k \in 1..Len(rows[i].DescLines) :
                          \/ MeasureString(rows[i].DescLines[k]) <= width
                          \/ IsWordOf(rows[i].DescLines[k], rows[i].DescLines[k])

\* the text the description cell of a not-used element is to show
NotUsedText(e) == IF e.Description # <<>> THEN e.Description ELSE UnusedElementLabel

\* C18: for every element whose usage is "not-used", the text of the
\* description cell is the element's own description when that is not empty
\* and the placeholder "Not used" when it is; the notes are never appended;
\* the name and the description are both written in the not-used style.
Thm_C18_NotUsed ==
    pc = "rendered" =>
        \A i \in 1..Len(rows) :
            LET e == rows[i].Element.Element
            IN  e.Usage = "not-used" =>
                    /\ DescWordsShown(i) = Fields(NotUsedText(e))
                    /\ svg.dataRows[i].name.class = "not-used"
                    /\ svg.dataRows[i].desc.class = "not-used"

\* C18 witness: a not-used element with notes and no description shows the
\* placeholder alone, in the not-used style
Wit_C18_NotUsed ==
    /\ pc = "rendered"
    /\ \E i \in 1..Len(rows) :
          LET e == rows[i].Element.Element
          IN  /\ e.Usage = "not-used"
              /\ e.Description = <<>>
              /\ e.Notes # <<>>
              /\ svg.dataRows[i].desc.lines = <<UnusedElementLabel>>
              /\ svg.dataRows[i].desc.class = "not-used"

----------------------------------------------------------------------------
(* Properties of the tree lines *)

\* the value "%f" printed: the six decimals are zeros
ParseF6(s) == ParseF0(SubSeq(s, 1, Len(s) - 7))

WholeF6(s) == EndsWith(s, <<".", "0", "0", "0", "0", "0", "0">>) /\ Len(s) > 7

\* the segments of row i as <<x1, y1, x2, y2>>
SegmentsShown(i) ==
    {<<ParseF6(g.x1), ParseF6(g.y1), ParseF6(g.x2), ParseF6(g.y2)>> :
        g \in {svg.dataRows[i].treeLines[k] :
                  k \in 1..Len(svg.dataRows[i].treeLines)}}

\* the geometry of row i: top, bottom, first-line centre, and the x of the
\* middle of indent column k
RowTop(i) == ParseF0(svg.dataRows[i].y)
RowBottom(i) == RowTop(i) + ParseF0(svg.dataRows[i].height)
FirstLineCentre(i) == RowTop(i) + RowTopMargin + config.FontSize \div 2
ColumnX(k) == config.Padding + k * config.IndentPx + config.IndentPx \div 2
IconX(i) == config.Padding + rows[i].Element.Depth * config.IndentPx

RowList == [k \in 1..Len(rows) |-> rows[k].Element]

\* C20: in the diagram of any tree a full-height continuation segment is in
\* indent column i of a row at depth d >= 2 (i <= d-2) exactly when a sibling
\* of the row's ancestor at depth i+1 follows below; and a vertical segment
\* reaches the bottom edge of a row only when the next row continues it.
CE_C20_Continuation ==
    (pc = "rendered" /\ fontOK) =>
        /\ \A j \in 1..Len(rows) :
              rows[j].Element.Depth >= 2 =>
                  \A i \in 0..(rows[j].Element.Depth - 2) :
                      (<<ColumnX(i), RowTop(j), ColumnX(i), RowBottom(j)>>
                           \in SegmentsShown(j))
                      <=> HasLaterSibling(RowList, AncestorAt(RowList, j, i + 1))
        /\ \A j \in 1..Len(rows) :
              \A g \in SegmentsShown(j) :
                  (g[1] = g[3] /\ g[4] = RowBottom(j)) =>
                      /\ j < Len(rows)
                      /\ \E n \in SegmentsShown(j + 1) :
                            n[1] = g[1] /\ n[3] = g[1] /\ n[2] = RowTop(j + 1)

----------------------------------------------------------------------------
(* Further properties of Flatten *)

\* C21: every flattened row at depth d >= 1 carries an ancestor vector of
\* exactly d-1 entries and the root row an empty one, for element rows,
\* element-level extension rows and root-level extension rows alike.
CE_C21_VectorLength ==
    pc = "flattened" =>
        \A j \in 1..Len(flat) :
            Len(flat[j].ParentLasts)
                = IF flat[j].Depth = 0 THEN 0 ELSE flat[j].Depth - 1

\* C29: every extension row shows the fields of its extension: its name,
\* type, cardinality and description are the extension's, for root-level and
\* element-level extensions alike.
CE_C29_ExtensionFields ==
    pc = "flattened" =>
        /\ Len(flat) = Len(PreOrder(resource))
        /\ \A j \in 1..Len(flat) :
              LET visit == PreOrder(resource)[j]
              IN  visit.kind = "extension" =>
                      /\ flat[j].Element.Name = visit.ext.Name
                      /\ flat[j].Element.Type = visit.ext.Type
                      /\ flat[j].Element.Cardinality = visit.ext.Cardinality
                      /\ flat[j].Element.Description = visit.ext.Description

----------------------------------------------------------------------------
(* Properties of the canvas *)

\* the widths of the five columns of the render, in order
ColumnWidthsUsed ==
    <<calculateNameColumnWidth(resource, config), config.FlagsColWidth,
      config.CardinalityColWidth, config.TypeColWidth,
      config.DescriptionColWidth>>

\* C25: each of the five clip regions is a rectangle from y = 0 with the
\* height of the canvas and the width of its column, whose left edge is at
\* the x where the data rows and the header row place that column: the left
\* edge of the row for the name column, the separator line on the column's
\* left for the others.
CE_C25_ClipRegions ==
    (pc = "rendered" /\ fontOK) =>
        /\ Len(svg.clipPaths) = 5
        /\ \A i \in 1..5 :
              LET clip == svg.clipPaths[i]
              IN  /\ ParseF0(clip.y) = 0
                  /\ clip.height = svg.header.height
                  /\ ParseF0(clip.width) = ColumnWidthsUsed[i]
                  /\ i = 1 => ParseF0(clip.x) = 0
                  /\ i > 1 =>
                        /\ clip.x = svg.headerRow.separators[i - 1]
                        /\ \A k \in 1..Len(svg.dataRows) :
                              clip.x = svg.dataRows[k].separators[i - 1]

----------------------------------------------------------------------------
(* Further properties of the description cell *)

\* the text that precedes the notes in the description cell of element e:
\* its description after the placeholder and TODO handling
\* (for a todo element, whatever the TODO handling makes of it)
PrecedingText(e) ==
    IF e.Usage = "not-used" THEN NotUsedText(e)
    ELSE IF e.Usage = "todo"
         THEN buildDescriptionText([Element |-> [e EXCEPT !.Notes = <<>>]])[1]
    ELSE e.Description

\* C22: the notes are appended to the text of the description cell exactly
\* when they are not empty and the usage is not "not-used"; the separator
\* " - " stands between the preceding text and the notes exactly when the
\* preceding text is not empty, so an empty description without todo usage
\* and with notes N yields exactly N.
Thm_C22_Notes ==
    pc = "rendered" =>
        \A i \in 1..Len(rows) :
            LET e == rows[i].Element.Element
                pre == Fields(PrecedingText(e))
            IN  DescWordsShown(i)
                    = IF e.Notes = <<>> \/ e.Usage = "not-used" THEN pre
                      ELSE IF pre = <<>> THEN Fields(e.Notes)
                      ELSE pre \o << <<"-">> >> \o Fields(e.Notes)

\* C22 witness: an element with no description, no todo usage and notes
\* shows its notes alone
Wit_C22_Notes ==
    /\ pc = "rendered"
    /\ \E i \in 1..Len(rows) :
          LET e == rows[i].Element.Element
          IN  /\ e.Description = <<>>
              /\ e.Usage \notin {"todo", "not-used"}
              /\ e.Notes # <<>>
              /\ svg.dataRows[i].desc.lines = <<e.Notes>>

----------------------------------------------------------------------------
(* Properties of the name column *)

\* the name column width the document declares: the width of its clip region
NameColumnShown == ParseF0(svg.clipPaths[1].width)

\* name column widths a caller may have put in the configuration
CallerWidths == {0, 100, MinNameColWidth, 250, MaxNameColWidth, 1000}

\* the width available to the name of row i in a name column of width w
NameBudget(i, w) ==
    w - (rows[i].Element.Depth * config.IndentPx + config.IconSize
         + IconPaddingRight)
      - config.Padding - FontRenderingBuffer

\* C23: the name column width of a render is one value for all rows, lies
\* within [MinNameColWidth, MaxNameColWidth], and does not depend on the
\* NameColWidth the caller put in the configuration; the wrapping budgets of
\* the rows, the header row, the clip paths and the canvas width all use it.
Thm_C23_NameColumn ==
    (pc = "rendered" /\ fontOK) =>
        LET w == NameColumnShown
        IN  /\ MinNameColWidth <= w /\ w <= MaxNameColWidth
            /\ \A v \in CallerWidths :
                  Render(resource, [config EXCEPT !.NameColWidth = v], TRUE) = svg
            /\ ParseF0(svg.header.width)
                   = w + config.FlagsColWidth + config.CardinalityColWidth
                     + config.TypeColWidth + config.DescriptionColWidth
            /\ ParseF0(svg.clipPaths[2].x) = w
            /\ ParseF0(svg.headerRow.separators[1]) = config.Padding + w
            /\ \A i \in 1..Len(rows) :
                  /\ ParseF0(svg.dataRows[i].separators[1]) = config.Padding + w
                  /\ rows[i].NameLines
                         = IF MeasureString(rows[i].Element.Element.Name)
                                  > NameBudget(i, w)
                           THEN WrapText(rows[i].Element.Element.Name,
                                         NameBudget(i, w))
                           ELSE <<rows[i].Element.Element.Name>>

\* C23 witness: a render of several rows whose caller asked for a name column
\* of 250 and whose content makes it another width above the minimum
Wit_C23_NameColumn ==
    /\ pc = "rendered" /\ fontOK
    /\ config.NameColWidth = 250
    /\ Len(rows) >= 3
    /\ NameColumnShown # 250
    /\ NameColumnShown > MinNameColWidth

----------------------------------------------------------------------------
(* Properties of the row layout *)

\* C26: the data rows tile the canvas in flattened order: one row is drawn
\* per flattened row, the first starts at y = TitleHeight + HeaderHeight,
\* each following row starts at the y + height of the row before it, and the
\* bottom edge of the last row is the declared canvas height minus
\* SVGHeightPadding.
Thm_C26_Tiling ==
    (pc = "rendered" /\ fontOK) =>
        LET n == Len(svg.dataRows)
        IN  /\ n = Len(Flatten(resource))
            /\ n >= 1
            /\ RowTop(1) = config.TitleHeight + config.HeaderHeight
            /\ \A i \in 1..n :
                  /\ ParseF0(svg.dataRows[i].height) = rows[i].RowHeight
                  /\ svg.dataRows[i].name.lines
                         = [k \in 1..Len(rows[i].NameLines) |->
                               escapeXML(rows[i].NameLines[k])]
                  /\ rows[i].Element = Flatten(resource)[i]
            /\ \A i \in 1..(n - 1) : RowTop(i + 1) = RowBottom(i)
            /\ RowBottom(n) = ParseF0(svg.header.height) - SVGHeightPadding

\* C26 witness: three rows or more, one of them higher than the minimum row
\* height and followed by another row
Wit_C26_Tiling ==
    /\ pc = "rendered" /\ fontOK
    /\ Len(svg.dataRows) >= 3
    /\ \E i \in 1..(Len(svg.dataRows) - 1) :
          /\ ParseF0(svg.dataRows[i].height) > config.MinRowHeight
          /\ RowTop(i + 1) = RowTop(i) + ParseF0(svg.dataRows[i].height)

----------------------------------------------------------------------------
(* Properties of the name column in deep trees *)

\* the name column width the content asks for, before it is clamped
NameContentWidth ==
    maxNameWidthFrom(Flatten(resource), 1, MeasureString(resource.Name), config)
    + config.Padding * 2

\* C27: whenever the computed name column width is not clamped down to
\* MaxNameColWidth, every row's name measures no more than the row's
\* available name width (the name column width minus the row's indent, icon
\* allowance, padding and rendering buffer), so no name is wrapped onto a
\* second line.
CE_C27_NameFits ==
    (pc = "rendered" /\ fontOK /\ NameContentWidth <= MaxNameColWidth) =>
        \A i \in 1..Len(rows) :
            /\ MeasureString(rows[i].Element.Element.Name)
                   <= NameBudget(i, NameColumnShown)
            /\ Len(rows[i].NameLines) = 1

\* C28: for every tree, however deep, the icon and the tree lines of each
\* row lie inside the name column: Padding + depth * IndentPx + IconSize is
\* at most the name column width, and so is the x of every tree line.
CE_C28_InsideNameColumn ==
    (pc = "rendered" /\ fontOK) =>
        \A i \in 1..Len(rows) :
            /\ IconX(i) + config.IconSize <= NameColumnShown
            /\ \A g \in SegmentsShown(i) :
                  g[1] <= NameColumnShown /\ g[3] <= NameColumnShown

----------------------------------------------------------------------------
(* Properties of TruncateText *)

\* the lengths of the non-empty prefixes of the text that fit maxWidth
\* together with the ellipsis
FittingPrefixes ==
    {k \in 1..Len(text) :
        MeasureString(SubSeq(text, 1, k)) + MeasureString(Ellipsis) <= maxWidth}

\* the longest fitting prefix with the ellipsis, or the ellipsis alone
Truncated ==
    IF FittingPrefixes = {} THEN Ellipsis
    ELSE LET k == CHOOSE k \in FittingPrefixes : \A q \in FittingPrefixes : q <= k
         IN  SubSeq(text, 1, k) \o Ellipsis

\* C24 (as stated): TruncateText(text, W) returns text unchanged when
\* measure(text) <= W; otherwise p + "..." for the longest prefix p of text
\* with measure(p) + measure("...") <= W, and "..." alone when no non-empty
\* prefix is such.
CE_C24_Truncate ==
    pc = "truncated" =>
        truncation.result = IF MeasureString(text) <= maxWidth THEN text
                            ELSE Truncated

\* C24 (amended): TruncateText(text, W) returns text unchanged when the text
\* is empty or measure(text) <= W; otherwise p + "..." for the longest prefix
\* p of text with measure(p) + measure("...") <= W, and "..." alone when no
\* non-empty prefix is such; and its search always comes to an end.
Thm_C24_Truncate ==
    /\ [](pc = "truncated" =>
            truncation.result
                = IF text = <<>> \/ MeasureString(text) <= maxWidth THEN text
                  ELSE Truncated)
    /\ [](pc = "search" =>
            /\ 0 <= truncation.low /\ truncation.low <= truncation.high
            /\ truncation.high <= Len(text))
    /\ <>(pc = "truncated")

\* C24 witness: a text of five characters was cut, after a search, to a
\* proper prefix of two characters or more and the ellipsis
Wit_C24_Truncate ==
    /\ pc = "truncated"
    /\ Len(text) = 5
    /\ truncation.high < Len(text)
    /\ truncation.low >= 2
    /\ truncation.result = SubSeq(text, 1, truncation.low) \o Ellipsis

----------------------------------------------------------------------------
(* Further properties of WrapText *)

\* C30: WrapText loses no text: for every text and width the result is a
\* non-empty list of lines whose words, split on whitespace, are exactly the
\* words of the text, in order, each once and none split across lines; a
\* text that fits is returned as one line, unchanged.
Thm_C30_NoTextLost ==
    pc = "wrapped" =>
        /\ Len(lines) >= 1
        /\ Words(lines) = Fields(text)
        /\ MeasureString(text) <= maxWidth => lines = <<text>>
        /\ Len(lines) >= 2 =>
              \A k \in 1..Len(lines) : Len(Fields(lines[k])) >= 1

\* C30 witness: a text of two words with two spaces between them was wrapped
\* onto two lines
Wit_C30_NoTextLost ==
    /\ pc = "wrapped"
    /\ Len(Fields(text)) = 2
    /\ Len(text) = MaxTextLen
    /\ Len(lines) >= 2
    /\ \E k \in 1..(Len(text) - 1) : IsSpace(text[k]) /\ IsSpace(text[k + 1])

====
